---- MODULE Spec2Model ----
(***************************************************************************)
(* A model of openfisca_core/simulation_builder.py: the SimulationBuilder  *)
(* that turns a situation document into index-aligned population arrays,   *)
(* buffers variable values per period, expands axes and commits the result *)
(* onto the simulation's entities.                                         *)
(*                                                                         *)
(* Python dicts are ordered dicts: sequences of <<key, value>> pairs with  *)
(* pairwise distinct keys, in insertion order.  Python lists and numpy     *)
(* arrays are sequences; Python index i is position i + 1 here.  Numbers   *)
(* held in arrays are exact rationals <<numerator, denominator>>.          *)
(* Every method is an operator from a world w = [self, simulation, log,    *)
(* error] to the world it leaves; an exception leaves its name in          *)
(* w.error together with the mutations made before it was raised.          *)
(***************************************************************************)
EXTENDS Integers, Sequences, FiniteSets, TLC

VARIABLES self, simulation, log, error, given, prev, returned

vars == <<self, simulation, log, error, given, prev, returned>>

----------------------------------------------------------------------------
(* Bounds of the model.                                                    *)

MaxCalls == 3
MaxAxisCount == 3
MaxAxes == 2
MaxIds == 4
MaxPersons == 2

----------------------------------------------------------------------------
(* Python dict, list and number helpers.                                   *)

Range(s) == {s[i] : i \in 1..Len(s)}

DictKeys(d) == [i \in 1..Len(d) |-> d[i][1]]

DictHas(d, k) == \E i \in 1..Len(d) : d[i][1] = k

DictGet(d, k) == d[CHOOSE i \in 1..Len(d) : d[i][1] = k][2]

DictSet(d, k, v) ==
    IF DictHas(d, k)
    THEN [i \in 1..Len(d) |-> IF d[i][1] = k THEN <<k, v>> ELSE d[i]]
    ELSE Append(d, <<k, v>>)

Put(f, k, v) == [x \in DOMAIN f \cup {k} |-> IF x = k THEN v ELSE f[x]]

NoDict == << >>

NoMap == [x \in {} |-> 0]

\* list.index(x), as a Python (0-based) index
IndexOf(s, x) == (CHOOSE i \in 1..Len(s) : s[i] = x /\ \A j \in 1..(i - 1) : s[j] # x) - 1

\* list * n
RECURSIVE Repeat(_, _)
Repeat(s, n) == IF n <= 0 THEN << >> ELSE s \o Repeat(s, n - 1)

Abs(n) == IF n < 0 THEN 0 - n ELSE n

RECURSIVE Gcd(_, _)
Gcd(a, b) == IF b = 0 THEN a ELSE Gcd(b, a % b)

\* the number n / d; d = 0 is numpy's nan
Rat(n, d) ==
    IF d = 0 THEN <<0, 0>>
    ELSE LET s == IF d < 0 THEN 0 - 1 ELSE 1
             g == Gcd(Abs(n), Abs(d))
         IN  <<(s * n) \div g, (s * d) \div g>>

Num(n) == <<n, 1>>

NaN == <<0, 0>>

----------------------------------------------------------------------------
(* The tax and benefit system the builder is given: one person kind, one   *)
(* group kind with a role that has subroles and one that has none, and     *)
(* three variables.                                                        *)

PersonsPlural == "persons"

GroupPlural == "households"

EntitiesPlural == <<PersonsPlural, GroupPlural>>

EntitiesBySingular == <<<<"person", PersonsPlural>>, <<"household", GroupPlural>>>>

\* entity.roles of the group kind, in declaration order
GroupRoles ==
    << [key |-> "parent", plural |-> "parents",
        subroles |-> <<"first_parent", "second_parent">>],
       [key |-> "child", plural |-> "children", subroles |-> << >>] >>

RoleName(role) == IF role.plural # "" THEN role.plural ELSE role.key

VariableNames == {"salary", "age", "rent"}

\* tax_benefit_system.variables with simulation.get_variable_entity
SystemVariableEntity(variable_name) ==
    IF variable_name = "rent" THEN GroupPlural ELSE PersonsPlural

\* variable.default_array(array_size): the variable's default value in every slot
default_array(array_size) == [i \in 1..array_size |-> Num(0)]

\* variable.check_set_value(value): a raw JSON value is a number, or a string
\* holding a number, or something the variable cannot take (ValueError)
check_set_value(value) ==
    IF value[1] \in {"num", "str"}
    THEN [ok |-> TRUE, value |-> Num(value[2])]
    ELSE [ok |-> FALSE, value |-> NaN]

----------------------------------------------------------------------------
(* SimulationBuilder.                                                      *)

\* __init__
NewBuilder ==
    [ default_period     |-> "",
      input_buffer       |-> NoDict,
      entity_counts      |-> NoMap,
      entity_ids         |-> NoMap,
      memberships        |-> NoMap,
      roles              |-> NoMap,
      variable_entities  |-> NoMap,
      axes               |-> << << >> >>,
      axes_entity_counts |-> NoMap,
      axes_entity_ids    |-> NoMap,
      axes_memberships   |-> NoMap,
      axes_roles         |-> NoMap ]

NewSimulation ==
    [ entities |-> NoMap, set_input |-> << >> ]

NewWorld ==
    [ self |-> NewBuilder, simulation |-> NewSimulation, log |-> << >>, error |-> "" ]

World == [ self |-> self, simulation |-> simulation, log |-> log, error |-> error ]

Raise(w, name) == [w EXCEPT !.error = name]

Logged(w, event) == [w EXCEPT !.log = Append(@, event)]

get_count(b, entity_name) ==
    IF entity_name \in DOMAIN b.axes_entity_counts
    THEN b.axes_entity_counts[entity_name]
    ELSE b.entity_counts[entity_name]

get_ids(b, entity_name) ==
    IF entity_name \in DOMAIN b.axes_entity_ids
    THEN b.axes_entity_ids[entity_name]
    ELSE b.entity_ids[entity_name]

get_memberships(b, entity_name) ==
    IF entity_name \in DOMAIN b.axes_memberships THEN b.axes_memberships[entity_name]
    ELSE IF entity_name \in DOMAIN b.memberships THEN b.memberships[entity_name]
    ELSE << >>

get_roles(b, entity_name) ==
    IF entity_name \in DOMAIN b.axes_roles THEN b.axes_roles[entity_name]
    ELSE IF entity_name \in DOMAIN b.roles THEN b.roles[entity_name]
    ELSE << >>

\* get_input registers the variable in the buffer as a side effect
get_input_touch(b, variable) ==
    IF DictHas(b.input_buffer, variable) THEN b
    ELSE [b EXCEPT !.input_buffer = DictSet(@, variable, NoDict)]

\* the value get_input returns; << >> stands for None
get_input(b, variable, period) ==
    IF DictHas(b.input_buffer, variable) /\ DictHas(DictGet(b.input_buffer, variable), period)
    THEN DictGet(DictGet(b.input_buffer, variable), period)
    ELSE << >>

has_input(b, variable, period) ==
    DictHas(b.input_buffer, variable) /\ DictHas(DictGet(b.input_buffer, variable), period)

set_buffer(b, variable, period, array) ==
    [b EXCEPT !.input_buffer =
        DictSet(@, variable, DictSet(DictGet(@, variable), period, array))]

\* a store that ignores instance_index
StoreAtWrongSlot(array, instance_index, value) ==
    [i \in 1..Len(array) |-> IF i = 1 THEN value ELSE array[i]]

\* array[instance_index] = value
StoreAt(array, instance_index, value) ==
    [i \in 1..Len(array) |-> IF i = instance_index + 1 THEN value ELSE array[i]]

add_variable_value(w, entity_plural, variable_name, instance_index, period_str, value) ==
    IF value[1] = "null" THEN w
    ELSE
      LET b1    == get_input_touch(w.self, variable_name)
          w1    == [w EXCEPT !.self = b1]
          array == IF has_input(b1, variable_name, period_str)
                   THEN get_input(b1, variable_name, period_str)
                   ELSE default_array(get_count(b1, entity_plural))
          c     == check_set_value(value)
      IN  IF ~c.ok THEN Raise(w1, "SituationParsingError:value")
          ELSE [w1 EXCEPT !.self =
                  set_buffer(b1, variable_name, period_str,
                             StoreAt(array, instance_index, c.value))]

----------------------------------------------------------------------------
(* Decimal text, and the period library (openfisca_core.periods).          *)

Digit(d) ==
    CASE d = 0 -> "0" [] d = 1 -> "1" [] d = 2 -> "2" [] d = 3 -> "3" [] d = 4 -> "4"
      [] d = 5 -> "5" [] d = 6 -> "6" [] d = 7 -> "7" [] d = 8 -> "8" [] d = 9 -> "9"

\* str(ix) of a non-negative integer
RECURSIVE str(_)
str(n) == IF n < 10 THEN Digit(n) ELSE str(n \div 10) \o Digit(n % 10)

NoPeriod == [ok |-> FALSE, unit |-> "", year |-> 0, month |-> 0, size |-> 0]

APeriod(unit, year, month) ==
    [ok |-> TRUE, unit |-> unit, year |-> year, month |-> month, size |-> 1]

\* make_period(value): the structured period a key parses to; ok = FALSE is
\* the parser's ValueError.  "year:2017" and "month:2017-01" are the
\* unit-prefixed spellings of "2017" and "2017-01".
make_period(value) ==
    CASE value = "2017"          -> APeriod("year", 2017, 1)
      [] value = "year:2017"     -> APeriod("year", 2017, 1)
      [] value = "2017-01"       -> APeriod("month", 2017, 1)
      [] value = "month:2017-01" -> APeriod("month", 2017, 1)
      [] value = "2018"          -> APeriod("year", 2018, 1)
      [] OTHER                   -> NoPeriod

\* str(period): the canonical spelling
period_str(period) ==
    IF period.unit = "year" THEN str(period.year)
    ELSE str(period.year) \o "-" \o (IF period.month < 10 THEN "0" ELSE "") \o str(period.month)

unit_weight(unit) ==
    CASE unit = "day" -> 100 [] unit = "month" -> 200 [] unit = "year" -> 300 [] OTHER -> 400

\* key_period_size(period): the sort key, smaller periods first
key_period_size(period) == <<unit_weight(period.unit), period.size>>

KeyLess(a, b) == a[1] < b[1] \/ (a[1] = b[1] /\ a[2] < b[2])

----------------------------------------------------------------------------
(* Variable ingestion.                                                     *)

\* entity.check_variable_defined_for_entity(variable_name)
check_variable_defined_for_entity(entity_plural, variable_name) ==
    IF variable_name \notin VariableNames THEN "VariableNotFound"
    ELSE IF SystemVariableEntity(variable_name) # entity_plural THEN "ValueError"
    ELSE ""

\* the loop over variable_values.items() of init_variable_values
RECURSIVE init_values_from(_, _, _, _, _, _)
init_values_from(w, entity_plural, variable_name, instance_index, items, k) ==
    IF k > Len(items) \/ w.error # "" THEN w
    ELSE IF ~make_period(items[k][1]).ok THEN Raise(w, "SituationParsingError:period")
    ELSE init_values_from(
            add_variable_value(w, entity_plural, variable_name, instance_index,
                               items[k][1], items[k][2]),
            entity_plural, variable_name, instance_index, items, k + 1)

\* the loop over instance_object.items() of init_variable_values
RECURSIVE init_variables_from(_, _, _, _, _)
init_variables_from(w, entity_plural, instance_object, instance_id, k) ==
    IF k > Len(instance_object) \/ w.error # "" THEN w
    ELSE
      LET variable_name   == instance_object[k][1]
          variable_values == instance_object[k][2]
          defined         == check_variable_defined_for_entity(entity_plural, variable_name)
          instance_index  == IndexOf(get_ids(w.self, entity_plural), instance_id)
      IN  IF defined = "ValueError" THEN Raise(w, "SituationParsingError:entity")
          ELSE IF defined = "VariableNotFound" THEN Raise(w, "SituationParsingError:404")
          ELSE IF variable_values.bare /\ w.self.default_period = ""
               THEN Raise(w, "SituationParsingError:expected object")
          ELSE
            LET items == IF variable_values.bare
                         THEN << <<w.self.default_period, variable_values.value>> >>
                         ELSE variable_values.items
            IN  init_variables_from(
                    init_values_from(w, entity_plural, variable_name, instance_index, items, 1),
                    entity_plural, instance_object, instance_id, k + 1)

init_variable_values(w, entity_plural, instance_object, instance_id) ==
    init_variables_from(Logged(w, <<"init_variable_values", entity_plural>>),
                        entity_plural, instance_object, instance_id, 1)

----------------------------------------------------------------------------
(* Population building.                                                    *)

\* the loop over instances_json.items() of add_person_entity
RECURSIVE add_persons_from(_, _, _)
add_persons_from(w, instances_json, k) ==
    IF k > Len(instances_json) \/ w.error # "" THEN w
    ELSE add_persons_from(
            init_variable_values(w, PersonsPlural, instances_json[k][2], instances_json[k][1]),
            instances_json, k + 1)

add_person_entity(w, instances_json) ==
    LET entity_ids == DictKeys(instances_json)
        w1 == [Logged(w, <<"add_person_entity", PersonsPlural>>) EXCEPT
                 !.self.entity_ids = Put(@, PersonsPlural, entity_ids),
                 !.self.entity_counts = Put(@, PersonsPlural, Len(entity_ids))]
    IN  add_persons_from(w1, instances_json, 1)

\* transform_to_strict_syntax(data): a bare id becomes a one-element list and
\* integer ids become their decimal text.  A role value is given as its list
\* of items (a bare id as the list of that id), an item as <<"str", text>> or
\* <<"int", n>>.
transform_to_strict_syntax(data) ==
    [i \in 1..Len(data) |-> IF data[i][1] = "int" THEN str(data[i][2]) ELSE data[i][2]]

\* roles_json of one instance: role name -> list of person ids, [] when absent
roles_json_of(instance_object) ==
    [i \in 1..Len(GroupRoles) |->
        <<RoleName(GroupRoles[i]),
          IF DictHas(instance_object.roles, RoleName(GroupRoles[i]))
          THEN transform_to_strict_syntax(DictGet(instance_object.roles, RoleName(GroupRoles[i])))
          ELSE << >> >>]

\* a check that lets a person be listed again
check_persons_to_allocate_lenient(persons_ids, person_id, persons_to_allocate) ==
    IF person_id \notin Range(persons_ids) THEN "SituationParsingError:undeclared"
    ELSE ""

\* check_persons_to_allocate: the exception it raises, "" when it returns
check_persons_to_allocate(persons_ids, person_id, persons_to_allocate) ==
    IF person_id \notin Range(persons_ids) THEN "SituationParsingError:undeclared"
    ELSE IF person_id \notin persons_to_allocate THEN "SituationParsingError:more than once"
    ELSE ""

\* the checking loops of add_group_entity over one instance's roles_json:
\* [error, persons_to_allocate] after the role lists from (r, j) on
RECURSIVE check_roles_from(_, _, _, _, _)
check_roles_from(persons_ids, roles_json, persons_to_allocate, r, j) ==
    IF r > Len(roles_json) THEN [error |-> "", persons_to_allocate |-> persons_to_allocate]
    ELSE IF j > Len(roles_json[r][2])
         THEN check_roles_from(persons_ids, roles_json, persons_to_allocate, r + 1, 1)
    ELSE LET person_id == roles_json[r][2][j]
             e == check_persons_to_allocate(persons_ids, person_id, persons_to_allocate)
         IN  IF e # "" THEN [error |-> e, persons_to_allocate |-> persons_to_allocate]
             ELSE check_roles_from(persons_ids, roles_json,
                                   persons_to_allocate \ {person_id}, r, j + 1)

\* iter_over_entity_members: the <<role, person id>> pairs it yields, in order;
\* a role with fewer subroles than listed persons ends it with an IndexError
RECURSIVE iter_over_entity_members(_, _, _)
iter_over_entity_members(roles_json, r, j) ==
    IF r > Len(GroupRoles) THEN [error |-> "", members |-> << >>]
    ELSE IF j > Len(roles_json[r][2]) THEN iter_over_entity_members(roles_json, r + 1, 1)
    ELSE LET role == GroupRoles[r]
         IN  IF Len(role.subroles) > 0 /\ j > Len(role.subroles)
             THEN [error |-> "IndexError", members |-> << >>]
             ELSE LET rest == iter_over_entity_members(roles_json, r, j + 1)
                      person_role == IF Len(role.subroles) > 0 THEN role.subroles[j] ELSE role.key
                  IN  [error |-> rest.error,
                       members |-> << <<person_role, roles_json[r][2][j]>> >> \o rest.members]

\* the assignments of the member loop: memberships and roles of the persons
\* the pairs name
RECURSIVE assign_members(_, _, _, _, _)
assign_members(w, persons_ids, members, entity_index, k) ==
    IF k > Len(members) THEN w
    ELSE LET person_index == IndexOf(persons_ids, members[k][2])
         IN  assign_members(
               [w EXCEPT !.self.memberships[GroupPlural][person_index + 1] = entity_index,
                         !.self.roles[GroupPlural][person_index + 1] = members[k][1]],
               persons_ids, members, entity_index, k + 1)

\* the loop over instances_json.items() of add_group_entity:
\* [w, persons_to_allocate] after the instances from k on
RECURSIVE add_instances_from(_, _, _, _, _)
add_instances_from(w, persons_ids, instances_json, persons_to_allocate, k) ==
    IF k > Len(instances_json) \/ w.error # ""
    THEN [w |-> w, persons_to_allocate |-> persons_to_allocate]
    ELSE
      LET instance_id     == instances_json[k][1]
          instance_object == instances_json[k][2]
          roles_json      == roles_json_of(instance_object)
          checked         == check_roles_from(persons_ids, roles_json, persons_to_allocate, 1, 1)
          entity_index    == IndexOf(DictKeys(instances_json), instance_id)
          yielded         == iter_over_entity_members(roles_json, 1, 1)
          w1              == assign_members(w, persons_ids, yielded.members, entity_index, 1)
      IN  IF checked.error # ""
          THEN [w |-> Raise(w, checked.error), persons_to_allocate |-> checked.persons_to_allocate]
          ELSE IF yielded.error # ""
          THEN [w |-> Raise(w1, yielded.error), persons_to_allocate |-> checked.persons_to_allocate]
          ELSE add_instances_from(
                  init_variable_values(w1, GroupPlural, instance_object.variables, instance_id),
                  persons_ids, instances_json, checked.persons_to_allocate, k + 1)

\* add_group_entity; np.empty leaves the membership slots uninitialised (any
\* value, here junk) and the role slots None ("")
add_group_entity(w, persons_ids, instances_json, junk) ==
    LET entity_ids == DictKeys(instances_json)
        persons_count == Len(persons_ids)
        w1 == [Logged(w, <<"add_group_entity", GroupPlural>>) EXCEPT
                 !.self.entity_ids = Put(@, GroupPlural, entity_ids),
                 !.self.entity_counts = Put(@, GroupPlural, Len(entity_ids)),
                 !.self.memberships = Put(@, GroupPlural, [i \in 1..persons_count |-> junk]),
                 !.self.roles = Put(@, GroupPlural, [i \in 1..persons_count |-> ""])]
        done == add_instances_from(w1, persons_ids, instances_json, Range(persons_ids), 1)
    IN  IF done.w.error # "" THEN done.w
        ELSE IF done.persons_to_allocate # {} THEN Raise(done.w, "SituationParsingError:unallocated")
        ELSE done.w

----------------------------------------------------------------------------
(* Finalisation.                                                           *)

\* sorted(periods, key = key_period_size): a stable insertion sort
RECURSIVE InsertSorted(_, _)
InsertSorted(sorted, period) ==
    IF sorted = << >> THEN <<period>>
    ELSE IF KeyLess(key_period_size(period), key_period_size(sorted[Len(sorted)]))
         THEN Append(InsertSorted(SubSeq(sorted, 1, Len(sorted) - 1), period), sorted[Len(sorted)])
         ELSE Append(sorted, period)

RECURSIVE SortedPrefix(_, _)
SortedPrefix(periods, n) ==
    IF n = 0 THEN << >> ELSE InsertSorted(SortedPrefix(periods, n - 1), periods[n])

sorted_periods(periods) == SortedPrefix(periods, Len(periods))

\* holder.set_input(period, array): "age" is a monthly variable that takes
\* months only, the other variables spread any period they are given
set_input_mismatch(variable_name, period) ==
    variable_name = "age" /\ period.unit # "month"

\* the loop over sorted_periods of finalize_variables_init
RECURSIVE commit_periods_from(_, _, _, _, _)
commit_periods_from(w, entity_plural, variable_name, periods, k) ==
    IF k > Len(periods) \/ w.error # "" THEN w
    ELSE
      LET buffer == DictGet(w.self.input_buffer, variable_name)
          period == periods[k]
      IN  IF ~DictHas(buffer, period_str(period)) THEN Raise(w, "KeyError")
          ELSE IF set_input_mismatch(variable_name, period) THEN Raise(w, "PeriodMismatchError")
          ELSE commit_periods_from(
                 [w EXCEPT !.simulation.set_input =
                     Append(@, [entity |-> entity_plural, variable |-> variable_name,
                                period |-> period,
                                array |-> DictGet(buffer, period_str(period))])],
                 entity_plural, variable_name, periods, k + 1)

\* the loop over self.input_buffer.keys() of finalize_variables_init
RECURSIVE commit_variables_from(_, _, _)
commit_variables_from(w, entity_plural, k) ==
    IF k > Len(w.self.input_buffer) \/ w.error # "" THEN w
    ELSE
      LET variable_name == w.self.input_buffer[k][1]
          keys == DictKeys(w.self.input_buffer[k][2])
          periods == [i \in 1..Len(keys) |-> make_period(keys[i])]
      IN  IF check_variable_defined_for_entity(entity_plural, variable_name) # ""
          THEN commit_variables_from(w, entity_plural, k + 1)
          ELSE IF \E i \in 1..Len(keys) : ~periods[i].ok THEN Raise(w, "ValueError")
          ELSE commit_variables_from(
                  commit_periods_from(w, entity_plural, variable_name, sorted_periods(periods), 1),
                  entity_plural, k + 1)

NoEntity == [count |-> 0 - 1, ids |-> << >>, members_entity_id |-> << >>, members_role |-> << >>]

EntityOf(w, entity_plural) ==
    IF entity_plural \in DOMAIN w.simulation.entities
    THEN w.simulation.entities[entity_plural] ELSE NoEntity

finalize_variables_init(w, entity_plural) ==
    LET b  == w.self
        e0 == EntityOf(w, entity_plural)
        e1 == IF entity_plural \in DOMAIN b.entity_counts
              THEN [e0 EXCEPT !.count = get_count(b, entity_plural),
                              !.ids = get_ids(b, entity_plural)]
              ELSE e0
        e2 == IF entity_plural \in DOMAIN b.memberships
              THEN [e1 EXCEPT !.members_entity_id = get_memberships(b, entity_plural),
                              !.members_role = get_roles(b, entity_plural)]
              ELSE e1
        w1 == [Logged(w, <<"finalize_variables_init", entity_plural>>) EXCEPT
                 !.simulation.entities = Put(@, entity_plural, e2)]
    IN  commit_variables_from(w1, entity_plural, 1)

----------------------------------------------------------------------------
(* Axes.                                                                   *)

register_variable(w, variable_name, entity_plural) ==
    [w EXCEPT !.self.variable_entities = Put(@, variable_name, entity_plural)]

\* the loop of build_from_entities that registers every variable of the system
RECURSIVE register_all(_, _)
register_all(w, names) ==
    IF names = {} THEN w
    ELSE LET n == CHOOSE x \in names : TRUE
         IN  register_all(register_variable(w, n, SystemVariableEntity(n)), names \ {n})

set_default_period(w, period) == [w EXCEPT !.self.default_period = period]

add_parallel_axis(w, axis) ==
    [Logged(w, <<"add_parallel_axis", axis.name>>) EXCEPT
        !.self.axes[1] = Append(@, axis)]

add_perpendicular_axis(w, axis) ==
    [Logged(w, <<"add_perpendicular_axis", axis.name>>) EXCEPT
        !.self.axes = Append(@, <<axis>>)]

\* np.linspace(min, max, count)
linspace(min, max, count) ==
    [k \in 1..count |->
        IF count = 1 THEN Num(min) ELSE Rat(min * (count - 1) + (k - 1) * (max - min), count - 1)]

\* whether position i (1-based) of an array is in array[axis_index :: step]
InSlice(i, axis_index, step) == i - 1 >= axis_index /\ (i - 1 - axis_index) % step = 0

\* len(array[axis_index :: step])
SliceLen(array, axis_index, step) ==
    IF axis_index >= Len(array) THEN 0 ELSE ((Len(array) - 1 - axis_index) \div step) + 1

\* whether numpy can assign values to array[axis_index :: step]: one value per
\* slot, or a single value for all of them
CanAssign(array, axis_index, step, values) ==
    /\ step > 0
    /\ \/ Len(values) = SliceLen(array, axis_index, step)
       \/ Len(values) = 1

\* array[axis_index :: step] = values
StridedAssign(array, axis_index, step, values) ==
    [i \in 1..Len(array) |->
        IF InSlice(i, axis_index, step)
        THEN IF Len(values) = 1 THEN values[1] ELSE values[((i - 1 - axis_index) \div step) + 1]
        ELSE array[i]]

\* [id + str(ix) for id, ix in zip(ids * count, np.arange(0, count))]
adjusted_ids(ids, count) ==
    IF Len(ids) = 0 THEN << >>
    ELSE [i \in 1..count |-> ids[((i - 1) % Len(ids)) + 1] \o str(i - 1)]

\* memberships tiled with no offset: every repetition in the first instances
adjusted_memberships_tiled(memberships, axis_count, step) ==
    Repeat(memberships, axis_count)

\* (np.array(memberships * axis_count)
\*   + np.repeat(np.arange(0, axis_count), len(memberships)) * step).tolist()
adjusted_memberships(memberships, axis_count, step) ==
    [i \in 1..(Len(memberships) * axis_count) |->
        memberships[((i - 1) % Len(memberships)) + 1] + ((i - 1) \div Len(memberships)) * step]

axis_period_of(b, axis) == IF axis.period # "" THEN axis.period ELSE b.default_period

\* "Distribute values along axes": the loop over the axes of one group, each
\* given the values its slots take
RECURSIVE distribute_from(_, _, _, _, _, _)
distribute_from(w, parallel_axes, values_of, count, step, k) ==
    IF k > Len(parallel_axes) \/ w.error # "" THEN w
    ELSE
      LET axis   == parallel_axes[k]
          period == axis_period_of(w.self, axis)
          b1     == get_input_touch(w.self, axis.name)
          array  == IF has_input(b1, axis.name, period) THEN get_input(b1, axis.name, period)
                    ELSE default_array(count)
          values == values_of[k]
      IN  IF ~CanAssign(array, axis.index, step, values)
          THEN Raise([w EXCEPT !.self = b1], "ValueError")
          ELSE distribute_from(
                 [w EXCEPT !.self = set_buffer(b1, axis.name, period,
                                               StridedAssign(array, axis.index, step, values))],
                 parallel_axes, values_of, count, step, k + 1)

\* the branch of expand_axes for a single group of parallel axes
expand_parallel(w) ==
    LET b             == w.self
        parallel_axes == b.axes[1]
        first_axis    == parallel_axes[1]
        axis_count    == first_axis.count
    IN  IF first_axis.name \notin DOMAIN b.variable_entities THEN Raise(w, "KeyError")
        ELSE
          LET axis_entity == b.variable_entities[first_axis.name]
          IN  IF axis_entity \notin DOMAIN b.entity_counts THEN Raise(w, "KeyError")
              ELSE
                LET step     == get_count(b, axis_entity)
                    count    == axis_count * step
                    original == get_memberships(b, axis_entity)
                    w1 == [w EXCEPT
                             !.self.axes_entity_counts = Put(@, axis_entity, count),
                             !.self.axes_entity_ids =
                                 Put(@, axis_entity, adjusted_ids(get_ids(b, axis_entity), count)),
                             !.self.axes_roles =
                                 Put(@, axis_entity, Repeat(get_roles(b, axis_entity), axis_count)),
                             !.self.axes_memberships =
                                 IF Len(original) > 0
                                 THEN Put(@, axis_entity,
                                          adjusted_memberships(original, axis_count, step))
                                 ELSE @]
                    values_of == [k \in 1..Len(parallel_axes) |->
                                    linspace(parallel_axes[k].min, parallel_axes[k].max, axis_count)]
                IN  distribute_from(w1, parallel_axes, values_of, count, step, 1)

RECURSIVE Product(_)
Product(s) == IF s = << >> THEN 1 ELSE s[1] * Product(SubSeq(s, 2, Len(s)))

\* the shape under matrix indexing, which np.meshgrid does not use by default
mesh_shape_ij(counts) == counts

\* np.meshgrid(*axes_linspaces)[g].reshape(steps_count)[f]: the g-th
\* coordinate of the f-th combination.  meshgrid's default indexing lays the
\* first two dimensions out as (count_2, count_1) and the others in order.
mesh_shape(counts) ==
    IF Len(counts) < 2 THEN counts
    ELSE <<counts[2], counts[1]>> \o SubSeq(counts, 3, Len(counts))

\* the position of group g's dimension in the mesh's shape
mesh_dimension(counts, g) ==
    IF Len(counts) < 2 THEN g ELSE IF g = 1 THEN 2 ELSE IF g = 2 THEN 1 ELSE g

mesh_coordinate(counts, g, f) ==
    LET shape == mesh_shape(counts)
        q     == mesh_dimension(counts, g)
    IN  (f \div Product(SubSeq(shape, q + 1, Len(shape)))) % shape[q]

\* axis['min'] + mesh.reshape(steps_count) * (axis['max'] - axis['min']) / (axis_count - 1)
mesh_values(axis, counts, g) ==
    [k \in 1..Product(counts) |->
        Rat(axis.min * (counts[g] - 1) + mesh_coordinate(counts, g, k - 1) * (axis.max - axis.min),
            counts[g] - 1)]

\* the second loop over self.axes in the perpendicular branch
RECURSIVE expand_groups_from(_, _, _, _)
expand_groups_from(w, counts, entity_sizes, g) ==
    IF g > Len(w.self.axes) \/ w.error # "" THEN w
    ELSE
      LET b             == w.self
          parallel_axes == b.axes[g]
          axis_entity   == b.variable_entities[parallel_axes[1].name]
          step          == entity_sizes[axis_entity]
          count         == Product(counts) * step
          w1 == [w EXCEPT
                   !.self.axes_entity_counts = Put(@, axis_entity, count),
                   !.self.axes_entity_ids =
                       Put(@, axis_entity, adjusted_ids(get_ids(b, axis_entity), count))]
          values_of == [k \in 1..Len(parallel_axes) |-> mesh_values(parallel_axes[k], counts, g)]
      IN  expand_groups_from(distribute_from(w1, parallel_axes, values_of, count, step, 1),
                             counts, entity_sizes, g + 1)

\* the branch of expand_axes for perpendicular groups
expand_perpendicular(w) ==
    LET b == w.self
    IN  IF \E g \in 1..Len(b.axes) : Len(b.axes[g]) = 0 THEN Raise(w, "IndexError")
        ELSE IF \E g \in 1..Len(b.axes) :
                   \/ b.axes[g][1].name \notin DOMAIN b.variable_entities
                   \/ b.variable_entities[b.axes[g][1].name] \notin DOMAIN b.entity_counts
             THEN Raise(w, "KeyError")
        ELSE
          LET counts   == [g \in 1..Len(b.axes) |-> b.axes[g][1].count]
              entities == {b.variable_entities[b.axes[g][1].name] : g \in 1..Len(b.axes)}
              entity_sizes == [e \in entities |-> get_count(b, e)]
          IN  expand_groups_from(w, counts, entity_sizes, 1)

\* an expansion that keeps the counts of the expansion before
keep_axes_entity_counts(b) == b

reset_axes_entity_counts(b) == [b EXCEPT !.axes_entity_counts = NoMap]

expand_axes(w) ==
    LET w1 == [Logged(w, <<"expand_axes", "">>) EXCEPT !.self = reset_axes_entity_counts(@)]
    IN  IF Len(w1.self.axes) = 1 /\ Len(w1.self.axes[1]) > 0
        THEN expand_parallel(w1)
        ELSE expand_perpendicular(w1)

----------------------------------------------------------------------------
(* Building a simulation from a situation document: an ordered dict from   *)
(* top-level keys to the instances of a kind (plural key), one instance's  *)
(* fields (singular key), or the axes.                                     *)

IsPlural(key) == key \in Range(EntitiesPlural)

IsSingular(key) == DictHas(EntitiesBySingular, key)

\* the plural entries of input_dict, in its order
RECURSIVE plural_entries(_)
plural_entries(input_dict) ==
    IF input_dict = << >> THEN << >>
    ELSE (IF IsPlural(input_dict[1][1]) THEN <<input_dict[1]>> ELSE << >>)
         \o plural_entries(SubSeq(input_dict, 2, Len(input_dict)))

\* the loop over singular_keys of explicit_singular_entities, taken in the
\* order of the system's kinds
RECURSIVE explicit_from(_, _, _)
explicit_from(result, input_dict, k) ==
    IF k > Len(EntitiesBySingular) THEN result
    ELSE LET singular == EntitiesBySingular[k][1]
             plural   == EntitiesBySingular[k][2]
         IN  explicit_from(
               IF DictHas(input_dict, singular)
               THEN DictSet(result, plural, << <<singular, DictGet(input_dict, singular)>> >>)
               ELSE result,
               input_dict, k + 1)

explicit_singular_entities(input_dict) ==
    IF ~\E i \in 1..Len(input_dict) : IsSingular(input_dict[i][1]) THEN input_dict
    ELSE explicit_from(plural_entries(input_dict), input_dict, 1)

\* ', '.join(unexpected_entities)
RECURSIVE join(_)
join(keys) ==
    IF Len(keys) = 0 THEN ""
    ELSE IF Len(keys) = 1 THEN keys[1]
    ELSE keys[1] \o ", " \o join(SubSeq(keys, 2, Len(keys)))

RECURSIVE unexpected_entities(_)
unexpected_entities(input_dict) ==
    IF input_dict = << >> THEN << >>
    ELSE (IF IsPlural(input_dict[1][1]) THEN << >> ELSE <<input_dict[1][1]>>)
         \o unexpected_entities(SubSeq(input_dict, 2, Len(input_dict)))

\* input_dict.pop('axes', None)
without_axes(input_dict) ==
    IF input_dict = << >> THEN << >>
    ELSE LET i == CHOOSE i \in 0..Len(input_dict) :
                     IF DictHas(input_dict, "axes") THEN i > 0 /\ input_dict[i][1] = "axes"
                     ELSE i = 0
         IN  IF i = 0 THEN input_dict
             ELSE SubSeq(input_dict, 1, i - 1) \o SubSeq(input_dict, i + 1, Len(input_dict))

\* the three nested loops that hand every declared axis to add_parallel_axis
RECURSIVE flatten(_)
flatten(lists) == IF lists = << >> THEN << >> ELSE lists[1] \o flatten(SubSeq(lists, 2, Len(lists)))

RECURSIVE add_axes_from(_, _, _)
add_axes_from(w, declared, k) ==
    IF k > Len(declared) THEN w
    ELSE add_axes_from(add_parallel_axis(w, declared[k]), declared, k + 1)

\* raise_period_mismatch turns a PeriodMismatchError into a SituationParsingError
raise_period_mismatch(w) ==
    IF w.error = "PeriodMismatchError" THEN Raise(w, "SituationParsingError:period mismatch") ELSE w

finalize_persons_first(w) == raise_period_mismatch(finalize_variables_init(w, PersonsPlural))

\* build_from_entities from the addition of the groups on
build_groups_and_axes(w, persons_ids, input_dict, axes) ==
    IF w.error # "" THEN w
    ELSE IF ~DictHas(input_dict, GroupPlural) THEN Raise(w, "SituationParsingError:type")
    ELSE
      LET w1 == add_group_entity(w, persons_ids, DictGet(input_dict, GroupPlural), 0)
          w2 == IF w1.error # "" THEN w1 ELSE add_axes_from(w1, flatten(flatten(axes)), 1)
          w3 == IF w2.error # "" \/ axes = << >> THEN w2 ELSE expand_axes(w2)
      IN  IF w3.error # "" THEN w3
          ELSE raise_period_mismatch(finalize_variables_init(w3, GroupPlural))

build_from_entities(w, input_dict_with_axes) ==
    LET w0 == Logged(register_all(w, VariableNames), <<"build_from_entities", "">>)
        axes == IF DictHas(input_dict_with_axes, "axes")
                THEN DictGet(input_dict_with_axes, "axes") ELSE << >>
        input_dict == without_axes(input_dict_with_axes)
        unexpected == unexpected_entities(input_dict)
    IN  IF unexpected # << >>
        THEN Raise(w0, "SituationParsingError:unexpected entities: " \o join(unexpected))
        ELSE IF ~DictHas(input_dict, PersonsPlural) \/ DictGet(input_dict, PersonsPlural) = << >>
        THEN Raise(w0, "SituationParsingError:no persons")
        ELSE
          LET w1 == add_person_entity(w0, DictGet(input_dict, PersonsPlural))
              w2 == IF w1.error # "" THEN w1 ELSE finalize_persons_first(w1)
          IN  build_groups_and_axes(w2, get_ids(w1.self, PersonsPlural), input_dict, axes)

\* build_default_simulation for the one person a document without values has
build_default_simulation(w, count) ==
    LET ids == [i \in 1..count |-> i - 1]
    IN  [w EXCEPT !.simulation.entities =
            [e \in Range(EntitiesPlural) |->
                [count |-> count, ids |-> ids,
                 members_entity_id |-> IF e = PersonsPlural THEN << >> ELSE [i \in 1..count |-> i - 1],
                 members_role |-> IF e = PersonsPlural THEN << >>
                                  ELSE [i \in 1..count |-> GroupRoles[1].subroles[1]]]]]

\* build_from_variables, for a document whose keys hold no values
build_from_variables(w, input_dict) ==
    build_default_simulation(Logged(w, <<"build_from_variables", "">>), 1)

build_from_dict(w, input_dict) ==
    LET explicit == explicit_singular_entities(input_dict)
    IN  IF \E i \in 1..Len(explicit) : IsPlural(explicit[i][1])
        THEN build_from_entities(w, explicit)
        ELSE build_from_variables(w, explicit)

----------------------------------------------------------------------------
(* Inputs.                                                                 *)

PersonIdPool == <<"p", "1", "p1", "q">>

\* person documents without variables: the first n ids of the pool
BarePersons(n) == [i \in 1..n |-> <<PersonIdPool[i], NoDict>>]

RawValues == {<<"num", 1>>, <<"str", 2>>, <<"null", 0>>, <<"bad", 0>>}

IngestPeriods == {"2017", "2017-01"}

FinalizePeriods == {"2017", "2017-01", "year:2017"}

PersonVariables == {v \in VariableNames : SystemVariableEntity(v) = PersonsPlural}

Step(w) ==
    /\ self' = w.self
    /\ simulation' = w.simulation
    /\ log' = w.log
    /\ error' = w.error

Init ==
    /\ self = NewBuilder
    /\ simulation = NewSimulation
    /\ log = << >>
    /\ error = ""
    /\ given = NoMap
    /\ prev = NewWorld
    /\ returned = NoDict

Built(entity_plural) == entity_plural \in DOMAIN self.entity_counts

\* how many times a method was entered
CallsOf(name) == Cardinality({k \in 1..Len(log) : log[k][1] = name})

----------------------------------------------------------------------------
(* Ingestion: add_person_entity, then add_variable_value calls.            *)

IngestPersons ==
    /\ error = "" /\ ~Built(PersonsPlural)
    /\ \E n \in 1..MaxPersons : Step(add_person_entity(World, BarePersons(n)))
    /\ UNCHANGED <<given, prev, returned>>

\* given remembers, per (variable, period, index), the coerced value of the
\* latest call that wrote; prev is the array the call found
IngestValue ==
    /\ error = "" /\ Built(PersonsPlural) /\ CallsOf("add_variable_value") < MaxCalls
    /\ \E v \in PersonVariables, p \in IngestPeriods, value \in RawValues :
       \E i \in 0..(get_count(self, PersonsPlural) - 1) :
          /\ Step(Logged(add_variable_value(World, PersonsPlural, v, i, p, value),
                         <<"add_variable_value", PersonsPlural>>))
          /\ given' = IF value[1] \in {"null", "bad"} THEN given
                      ELSE Put(given, <<v, p, i>>, check_set_value(value).value)
          /\ prev' = get_input(self, v, p)
          /\ UNCHANGED returned

NextIngest == IngestPersons \/ IngestValue

SpecIngest == Init /\ [][NextIngest]_vars

\* C2: every buffered array has one slot per instance, holds at each index the
\* coerced value of the latest call that wrote (variable, period, index) and the
\* default where no call wrote; an array exists exactly for the written
\* (variable, period) pairs.
C2_LastWriteWins ==
    Built(PersonsPlural) =>
      \A v \in PersonVariables, p \in IngestPeriods :
        /\ has_input(self, v, p) <=>
              \E i \in 0..(get_count(self, PersonsPlural) - 1) : <<v, p, i>> \in DOMAIN given
        /\ has_input(self, v, p) =>
              /\ Len(get_input(self, v, p)) = get_count(self, PersonsPlural)
              /\ \A i \in 0..(get_count(self, PersonsPlural) - 1) :
                    get_input(self, v, p)[i + 1] =
                       IF <<v, p, i>> \in DOMAIN given THEN given[<<v, p, i>>] ELSE Num(0)

\* a state where one slot was written twice, another period of the same
\* variable and instance holds its own value, and a slot was never written
C2_Witness ==
    /\ error = "" /\ Built(PersonsPlural) /\ get_count(self, PersonsPlural) = 2
    /\ CallsOf("add_variable_value") = 3
    /\ has_input(self, "salary", "2017") /\ has_input(self, "salary", "2017-01")
    /\ get_input(self, "salary", "2017") = <<Num(0), Num(2)>>
    /\ get_input(self, "salary", "2017-01") = <<Num(0), Num(1)>>
    /\ prev = <<Num(0), Num(1)>>

----------------------------------------------------------------------------
(* Population building: add_person_entity, then add_group_entity.          *)

HouseholdIdPool == <<"h1", "h2">>

\* what a role list may name: the declared persons as text, the integer 1 and
\* an undeclared id
MemberRefs(n) == {<<"str", PersonIdPool[i]>> : i \in 1..n} \cup {<<"int", 1>>, <<"str", "zz">>}

RECURSIVE ListsUpTo(_, _)
ListsUpTo(S, n) ==
    IF n = 0 THEN {<< >>}
    ELSE LET shorter == ListsUpTo(S, n - 1)
         IN  shorter \cup {Append(l, x) : l \in {m \in shorter : Len(m) = n - 1}, x \in S}

RoleDict(parents, children) ==
    (IF parents = << >> THEN << >> ELSE << <<"parents", parents>> >>)
    \o (IF children = << >> THEN << >> ELSE << <<"children", children>> >>)

Quoted(value) == [bare |-> FALSE, value |-> <<"null", 0>>, items |-> value]

Bare(value) == [bare |-> TRUE, value |-> value, items |-> NoDict]

GroupVariableDocs == {NoDict, << <<"rent", Quoted(<< <<"2017", <<"num", 1>> >> >>)>> >>}

\* the fields of one instance whose role lists name at most budget persons
HouseholdObjects(n, budget, variable_docs) ==
    UNION {{[roles |-> RoleDict(a, b), variables |-> v] :
               b \in ListsUpTo(MemberRefs(n), budget - Len(a)), v \in variable_docs} :
           a \in ListsUpTo(MemberRefs(n), budget)}

\* how many persons the role lists of an instance name
Listed(instance_object) ==
    LET roles_json == instance_object.roles
    IN  IF roles_json = << >> THEN 0
        ELSE IF Len(roles_json) = 1 THEN Len(roles_json[1][2])
        ELSE Len(roles_json[1][2]) + Len(roles_json[2][2])

\* one or two households; the role lists of all instances together name at
\* most one person more than there are persons
HouseholdDocs(n, first) ==
    {<< <<HouseholdIdPool[1], first>> >>}
    \cup {<< <<HouseholdIdPool[1], first>>, <<HouseholdIdPool[2], second>> >> :
             second \in HouseholdObjects(n, n + 1 - Listed(first), {NoDict})}

JunkValues == {0, 99}

GroupPersons ==
    /\ error = "" /\ ~Built(PersonsPlural)
    /\ \E n \in 1..MaxPersons : Step(add_person_entity(World, BarePersons(n)))
    /\ UNCHANGED <<given, prev, returned>>

\* given keeps the instances document
GroupAdd ==
    /\ error = "" /\ Built(PersonsPlural) /\ ~Built(GroupPlural)
    /\ \E first \in HouseholdObjects(get_count(self, PersonsPlural),
                                     get_count(self, PersonsPlural) + 1, GroupVariableDocs) :
        \E instances_json \in HouseholdDocs(get_count(self, PersonsPlural), first),
           junk \in JunkValues :
          /\ Step(add_group_entity(World, get_ids(self, PersonsPlural), instances_json, junk))
          /\ given' = instances_json
          /\ UNCHANGED <<prev, returned>>

NextGroup == GroupPersons \/ GroupAdd

SpecGroup == Init /\ [][NextGroup]_vars

\* the places <<instance index, role index, position>> of a document that name
\* person_id
Listings(instances_json, person_id) ==
    {x \in (1..Len(instances_json)) \X (1..Len(GroupRoles)) \X (1..(MaxPersons + 1)) :
        LET l == roles_json_of(instances_json[x[1]][2])[x[2]][2]
        IN  x[3] <= Len(l) /\ l[x[3]] = person_id}

RoleAt(x) ==
    IF Len(GroupRoles[x[2]].subroles) > 0 THEN GroupRoles[x[2]].subroles[x[3]]
    ELSE GroupRoles[x[2]].key

Returned(name) == error = "" /\ Len(log) > 0 /\ log[Len(log)][1] = name

GroupReturned ==
    error = "" /\ Built(GroupPlural) /\ CallsOf("add_group_entity") = 1

\* C1: when add_group_entity returns, every person is listed at exactly one
\* place of the document and nothing else is listed, and the person's slot of
\* memberships and roles holds that place's instance index and role.
C1_ExactlyOneRole ==
    GroupReturned =>
      LET ids == self.entity_ids[PersonsPlural]
      IN  /\ Len(self.memberships[GroupPlural]) = Len(ids)
          /\ Len(self.roles[GroupPlural]) = Len(ids)
          /\ \A i \in 1..Len(ids) :
                /\ Cardinality(Listings(given, ids[i])) = 1
                /\ \A x \in Listings(given, ids[i]) :
                      /\ self.memberships[GroupPlural][i] = x[1] - 1
                      /\ self.roles[GroupPlural][i] = RoleAt(x)
          /\ \A k \in 1..Len(given) : \A r \in 1..Len(GroupRoles) :
                Range(roles_json_of(given[k][2])[r][2]) \subseteq Range(ids)

\* two persons in two households, one listed as an integer id, one as a child
C1_Witness ==
    /\ GroupReturned
    /\ self.entity_ids[PersonsPlural] = <<"p", "1">>
    /\ self.memberships[GroupPlural] = <<1, 0>>
    /\ self.roles[GroupPlural] = <<"child", "first_parent">>

----------------------------------------------------------------------------
(* Finalisation of buffered periods: add_person_entity, add_variable_value *)
(* calls, then finalize_variables_init.                                    *)

FinalizePersons ==
    /\ error = "" /\ ~Built(PersonsPlural)
    /\ \E n \in 1..MaxPersons : Step(add_person_entity(World, BarePersons(n)))
    /\ UNCHANGED <<given, prev, returned>>

FinalizeValue ==
    /\ error = "" /\ Built(PersonsPlural) /\ CallsOf("add_variable_value") < MaxCalls
    /\ CallsOf("finalize_variables_init") = 0
    /\ \E v \in PersonVariables, p \in FinalizePeriods, value \in RawValues :
       \E i \in 0..(get_count(self, PersonsPlural) - 1) :
          Step(Logged(add_variable_value(World, PersonsPlural, v, i, p, value),
                      <<"add_variable_value", PersonsPlural>>))
    /\ UNCHANGED <<given, prev, returned>>

FinalizeCommit ==
    /\ error = "" /\ Built(PersonsPlural) /\ CallsOf("finalize_variables_init") = 0
    /\ Step(finalize_variables_init(World, PersonsPlural))
    /\ UNCHANGED <<given, prev, returned>>

NextFinalize == FinalizePersons \/ FinalizeValue \/ FinalizeCommit

SpecFinalize == Init /\ [][NextFinalize]_vars

\* the set_input calls made for a variable, in call order
CommitsOf(variable_name) ==
    LET idx == {k \in 1..Len(simulation.set_input) :
                    simulation.set_input[k].variable = variable_name}
    IN  [n \in 1..Cardinality(idx) |->
            simulation.set_input[CHOOSE k \in idx : Cardinality({j \in idx : j <= k}) = n]]

CommittedOnce(variable_name) ==
    LET buffer  == DictGet(self.input_buffer, variable_name)
        commits == CommitsOf(variable_name)
    IN  /\ Len(commits) = Len(buffer)
        /\ \E f \in [1..Len(buffer) -> 1..Len(buffer)] :
              /\ \A a, b \in 1..Len(buffer) : f[a] = f[b] => a = b
              /\ \A a \in 1..Len(buffer) :
                    /\ commits[f[a]].period = make_period(buffer[a][1])
                    /\ commits[f[a]].array = buffer[a][2]

CommittedSmallFirst(variable_name) ==
    LET commits == CommitsOf(variable_name)
    IN  \A a, b \in 1..Len(commits) :
           a < b => ~KeyLess(key_period_size(commits[b].period), key_period_size(commits[a].period))

\* C3: when finalize_variables_init returns, each buffered period of each of
\* the entity's variables was committed once, with its own array, and no
\* commit of a larger period precedes one of a smaller period.
C3_CommitEachPeriodSmallFirst ==
    Returned("finalize_variables_init") =>
      \A k \in 1..Len(self.input_buffer) :
         /\ CommittedOnce(self.input_buffer[k][1])
         /\ CommittedSmallFirst(self.input_buffer[k][1])

----------------------------------------------------------------------------
(* Axis expansion through the builder's methods: the variables are         *)
(* registered and a default period set, the population is built, axes are  *)
(* added, and expand_axes is called, up to twice.                          *)

\* person documents: bare, or with a salary given to the first person
AxesPersonDocs(n) ==
    {BarePersons(n),
     [i \in 1..n |->
        <<PersonIdPool[i],
          IF i = 1 THEN << <<"salary", Quoted(<< <<"2017", <<"num", 1>> >> >>)>> >> ELSE NoDict>>]}

Member(i) == <<"str", PersonIdPool[i]>>

\* household documents: everyone in one household, or the first person alone
\* in the first household and the others in the second
AxesHouseholdDocs(n) ==
    {<< <<HouseholdIdPool[1],
          [roles |-> RoleDict(<<Member(1)>>, [i \in 1..(n - 1) |-> Member(i + 1)]),
           variables |-> NoDict]>> >>}
    \cup (IF n < 2 THEN {}
          ELSE {<< <<HouseholdIdPool[1],
                     [roles |-> RoleDict(<<Member(1)>>, << >>), variables |-> NoDict]>>,
                   <<HouseholdIdPool[2],
                     [roles |-> RoleDict(<< >>, [i \in 1..(n - 1) |-> Member(i + 1)]),
                      variables |-> NoDict]>> >>})

AxisMin(name) == IF name = "age" THEN 20 ELSE 0

AxisMax(name) == IF name = "salary" THEN 100 ELSE IF name = "age" THEN 50 ELSE 60

\* an axis over salary sweeps the period the first person's salary may be
\* given for, an axis over age the default period; age takes the second slot
AxisPeriod(name) == IF name = "age" THEN "" ELSE "2017"

AxisIndex(name) == IF name = "age" THEN 1 ELSE 0

AxisChoices ==
    {[name |-> n, count |-> c, min |-> AxisMin(n), max |-> AxisMax(n),
      period |-> AxisPeriod(n), index |-> AxisIndex(n)] :
        n \in VariableNames, c \in 1..MaxAxisCount}

AxesCount == Len(self.axes[1]) + Len(self.axes) - 1

AxesRegister ==
    /\ error = "" /\ self.variable_entities = NoMap
    /\ Step(set_default_period(register_all(World, VariableNames), "2018"))
    /\ UNCHANGED <<given, prev, returned>>

AxesPersons ==
    /\ error = "" /\ self.variable_entities # NoMap /\ ~Built(PersonsPlural)
    /\ \E n \in 1..MaxPersons : \E doc \in AxesPersonDocs(n) : Step(add_person_entity(World, doc))
    /\ UNCHANGED <<given, prev, returned>>

AxesGroup ==
    /\ error = "" /\ Built(PersonsPlural) /\ ~Built(GroupPlural)
    /\ \E doc \in AxesHouseholdDocs(get_count(self, PersonsPlural)), junk \in JunkValues :
          Step(add_group_entity(World, get_ids(self, PersonsPlural), doc, junk))
    /\ UNCHANGED <<given, prev, returned>>

\* parallel axes share the step count of their group's first axis
AxesAddParallel ==
    /\ error = "" /\ Built(GroupPlural) /\ CallsOf("expand_axes") = 0 /\ AxesCount < MaxAxes
    /\ \E axis \in AxisChoices :
          /\ Len(self.axes[1]) > 0 => axis.count = self.axes[1][1].count
          /\ Step(add_parallel_axis(World, axis))
    /\ UNCHANGED <<given, prev, returned>>

AxesAddPerpendicular ==
    /\ error = "" /\ Built(GroupPlural) /\ CallsOf("expand_axes") = 0 /\ AxesCount < MaxAxes
    /\ \E axis \in AxisChoices : Step(add_perpendicular_axis(World, axis))
    /\ UNCHANGED <<given, prev, returned>>

\* prev keeps the world the call found
AxesExpand ==
    /\ Built(GroupPlural) /\ AxesCount > 0 /\ CallsOf("expand_axes") < 2
    /\ CallsOf("expand_axes") = 0 => error = ""
    /\ Step(expand_axes([World EXCEPT !.error = ""]))
    /\ prev' = World
    /\ UNCHANGED <<given, returned>>

NextAxes ==
    \/ AxesRegister \/ AxesPersons \/ AxesGroup
    \/ AxesAddParallel \/ AxesAddPerpendicular \/ AxesExpand

SpecAxes == Init /\ [][NextAxes]_vars

LastCall(name) == Len(log) > 0 /\ log[Len(log)][1] = name

\* the k-th (from 0) of count evenly spaced numbers from min to max
GridPoint(min, max, count, k) ==
    IF count = 1 THEN Num(min) ELSE Rat(min * (count - 1) + k * (max - min), count - 1)

BufferKey(b, axis) == <<axis.name, axis_period_of(b, axis)>>

\* a single group of parallel axes as the comment of add_parallel_axis asks:
\* one entity kind, one step count, every axis in a slot of the base size
ParallelGroup(b) ==
    /\ Len(b.axes) = 1 /\ Len(b.axes[1]) > 0
    /\ \A k \in 1..Len(b.axes[1]) :
          /\ b.variable_entities[b.axes[1][k].name] = b.variable_entities[b.axes[1][1].name]
          /\ b.axes[1][k].count = b.axes[1][1].count
          /\ b.axes[1][k].index < b.entity_counts[b.variable_entities[b.axes[1][1].name]]

\* C4: after the first expand_axes over a single group of N steps on a kind of
\* base size S, the kind counts N x S and each axis's array has N x S slots
\* and holds the k-th of its N evenly spaced values at slot index + k * S,
\* whether ingestion had buffered that array or not.
C4_ParallelLinspace ==
    (LastCall("expand_axes") /\ CallsOf("expand_axes") = 1 /\ ParallelGroup(prev.self)) =>
      LET group  == self.axes[1]
          N      == group[1].count
          entity == self.variable_entities[group[1].name]
          S      == self.entity_counts[entity]
      IN  /\ error = ""
          /\ get_count(self, entity) = N * S
          /\ \A a \in 1..Len(group) :
                LET key == BufferKey(self, group[a])
                IN  /\ has_input(self, key[1], key[2])
                    /\ Len(get_input(self, key[1], key[2])) = N * S
                    /\ \A k \in 0..(N - 1) :
                          get_input(self, key[1], key[2])[group[a].index + k * S + 1] =
                             GridPoint(group[a].min, group[a].max, N, k)

\* the same, for the arrays the expansion creates
C4_CreatedByExpansion ==
    (\A a \in 1..Len(prev.self.axes[1]) :
        ~has_input(prev.self, BufferKey(prev.self, prev.self.axes[1][a])[1],
                   BufferKey(prev.self, prev.self.axes[1][a])[2]))
    => C4_ParallelLinspace

ValuesAt(b, axis) == get_input(b, BufferKey(b, axis)[1], BufferKey(b, axis)[2])

\* C5: when expand_axes returns for two perpendicular groups of c1 >= 2 and
\* c2 >= 2 steps over kinds of base size 1, each kind of an axis counts
\* c1 x c2, and for an axis of the first group and an axis of the second (with
\* arrays of their own) the pairs of values at the c1 x c2 positions are the
\* c1 x c2 combinations of their grid points, each at exactly one position.
C5_PerpendicularFactorial ==
    (/\ Returned("expand_axes") /\ Len(self.axes) = 2
     /\ Len(self.axes[1]) > 0 /\ Len(self.axes[2]) > 0
     /\ self.axes[1][1].count >= 2 /\ self.axes[2][1].count >= 2
     /\ \A e \in DOMAIN self.entity_counts : self.entity_counts[e] = 1) =>
      LET c1 == self.axes[1][1].count
          c2 == self.axes[2][1].count
      IN  /\ \A g \in 1..2 :
                get_count(self, self.variable_entities[self.axes[g][1].name]) = c1 * c2
          /\ \A a \in 1..Len(self.axes[1]), b \in 1..Len(self.axes[2]) :
                LET A == self.axes[1][a]
                    B == self.axes[2][b]
                IN  BufferKey(self, A) # BufferKey(self, B) =>
                      /\ Len(ValuesAt(self, A)) = c1 * c2
                      /\ Len(ValuesAt(self, B)) = c1 * c2
                      /\ {<<ValuesAt(self, A)[j], ValuesAt(self, B)[j]>> : j \in 1..(c1 * c2)} =
                            {<<GridPoint(A.min, A.max, c1, x), GridPoint(B.min, B.max, c2, y)>> :
                                x \in 0..(c1 - 1), y \in 0..(c2 - 1)}
                      /\ \A i, j \in 1..(c1 * c2) :
                            (/\ ValuesAt(self, A)[i] = ValuesAt(self, A)[j]
                             /\ ValuesAt(self, B)[i] = ValuesAt(self, B)[j]) => i = j

\* counts 2 and 3 over one person and one household: six positions
C5_Witness ==
    /\ Returned("expand_axes") /\ Len(self.axes) = 2
    /\ Len(self.axes[1]) = 1 /\ Len(self.axes[2]) = 1
    /\ self.axes[1][1].name = "salary" /\ self.axes[1][1].count = 2
    /\ self.axes[2][1].name = "rent" /\ self.axes[2][1].count = 3
    /\ self.entity_counts[PersonsPlural] = 1
    /\ get_count(self, PersonsPlural) = 6 /\ get_count(self, GroupPlural) = 6
    /\ get_input(self, "salary", "2017") =
          <<Num(0), Num(100), Num(0), Num(100), Num(0), Num(100)>>
    /\ get_input(self, "rent", "2017") = <<Num(0), Num(0), Num(30), Num(30), Num(60), Num(60)>>

\* C6: a second expand_axes with the axes unchanged leaves the count of every
\* kind and the whole input buffer as the first call left them.
C6_ExpandTwice ==
    (LastCall("expand_axes") /\ CallsOf("expand_axes") = 2) =>
      /\ \A e \in DOMAIN self.entity_counts : get_count(self, e) = get_count(prev.self, e)
      /\ self.input_buffer = prev.self.input_buffer

\* a second call that returned, over two persons in three steps
C6_Witness ==
    /\ Returned("expand_axes") /\ CallsOf("expand_axes") = 2
    /\ self.entity_counts[PersonsPlural] = 2
    /\ get_count(self, PersonsPlural) = 6
    /\ has_input(self, "salary", "2017")
    /\ get_input(self, "salary", "2017") = <<Num(0), Num(0), Num(50), Num(0), Num(100), Num(0)>>
    /\ get_ids(self, PersonsPlural) # get_ids(prev.self, PersonsPlural)

\* C12: a second expand_axes over an unchanged single group of axes leaves the
\* ids, roles and memberships of every kind as the first call left them.
C12_ExpandTwiceSnapshot ==
    (LastCall("expand_axes") /\ CallsOf("expand_axes") = 2 /\ Len(self.axes) = 1) =>
      \A e \in DOMAIN self.entity_counts :
         /\ get_ids(self, e) = get_ids(prev.self, e)
         /\ get_roles(self, e) = get_roles(prev.self, e)
         /\ get_memberships(self, e) = get_memberships(prev.self, e)

\* the first expand_axes over a single group of axes on the group kind
GroupKindExpanded ==
    /\ LastCall("expand_axes") /\ CallsOf("expand_axes") = 1
    /\ Len(self.axes) = 1 /\ Len(self.axes[1]) > 0
    /\ self.variable_entities[self.axes[1][1].name] = GroupPlural

\* C13: after the first expand_axes over a single group of N steps on the
\* group kind of base size S, with base memberships m of P persons, the
\* memberships have N x P entries, the one at k * P + i is m[i] + k * S, an
\* instance of repetition k, and the roles are the base roles N times.
C13_MembershipsShifted ==
    GroupKindExpanded =>
      LET N  == self.axes[1][1].count
          S  == get_count(prev.self, GroupPlural)
          m  == get_memberships(prev.self, GroupPlural)
          P  == Len(m)
          am == get_memberships(self, GroupPlural)
          ar == get_roles(self, GroupPlural)
      IN  /\ Len(am) = N * P
          /\ Len(ar) = N * P
          /\ \A k \in 0..(N - 1), i \in 0..(P - 1) :
                /\ am[k * P + i + 1] = m[i + 1] + k * S
                /\ k * S <= am[k * P + i + 1] /\ am[k * P + i + 1] < (k + 1) * S
                /\ ar[k * P + i + 1] = get_roles(prev.self, GroupPlural)[i + 1]

\* two persons in two households, three steps over rent
C13_Witness ==
    /\ GroupKindExpanded /\ error = ""
    /\ self.axes[1][1].count = 3
    /\ get_memberships(prev.self, GroupPlural) = <<0, 1>>
    /\ get_memberships(self, GroupPlural) = <<0, 1, 2, 3, 4, 5>>
    /\ get_roles(self, GroupPlural) =
          <<"first_parent", "child", "first_parent", "child", "first_parent", "child">>

\* C7: when add_person_entity, add_group_entity or expand_axes returns, every
\* built kind has as many ids as its count, and the group kind's memberships
\* and roles have one slot per person.
C7_SnapshotConsistent ==
    (Returned("add_person_entity") \/ Returned("init_variable_values")
       \/ Returned("add_group_entity") \/ Returned("expand_axes")) =>
      /\ \A e \in DOMAIN self.entity_counts : Len(get_ids(self, e)) = get_count(self, e)
      /\ GroupPlural \in DOMAIN self.entity_counts =>
            /\ Len(get_memberships(self, GroupPlural)) = get_count(self, PersonsPlural)
            /\ Len(get_roles(self, GroupPlural)) = get_count(self, PersonsPlural)

----------------------------------------------------------------------------
(* Ids under expansion: persons under any distinct ids of the pool, one    *)
(* axis over salary, expand_axes.                                          *)

\* the sequences of at most n pairwise distinct elements of S
RECURSIVE DistinctSeqs(_, _)
DistinctSeqs(S, n) ==
    IF n = 0 THEN {<< >>}
    ELSE LET shorter == DistinctSeqs(S, n - 1)
         IN  shorter \cup UNION {{Append(l, x) : x \in S \ Range(l)} :
                                     l \in {m \in shorter : Len(m) = n - 1}}

IdsPersons ==
    /\ error = "" /\ self.variable_entities # NoMap /\ ~Built(PersonsPlural)
    /\ \E ids \in DistinctSeqs(Range(PersonIdPool), MaxIds) \ {<< >>} :
          Step(add_person_entity(World, [i \in 1..Len(ids) |-> <<ids[i], NoDict>>]))
    /\ UNCHANGED <<given, prev, returned>>

IdsAddAxis ==
    /\ error = "" /\ Built(PersonsPlural) /\ AxesCount = 0
    /\ \E axis \in AxisChoices : axis.name = "salary" /\ Step(add_parallel_axis(World, axis))
    /\ UNCHANGED <<given, prev, returned>>

IdsExpand ==
    /\ error = "" /\ AxesCount > 0 /\ CallsOf("expand_axes") = 0
    /\ Step(expand_axes(World))
    /\ prev' = World
    /\ UNCHANGED <<given, returned>>

NextIds == AxesRegister \/ IdsPersons \/ IdsAddAxis \/ IdsExpand

SpecIds == Init /\ [][NextIds]_vars

\* C9: the ids expand_axes gives a kind are pairwise distinct.
C9_ExpandedIdsDistinct ==
    Returned("expand_axes") =>
      \A e \in DOMAIN self.entity_counts :
         \A i, j \in 1..Len(get_ids(self, e)) :
            get_ids(self, e)[i] = get_ids(self, e)[j] => i = j


----------------------------------------------------------------------------
(* Building: build_from_dict is called once on a situation document, with  *)
(* or without a default period set before.                                 *)

\* what a person of the document says about its variables
BuildPersonVariables ==
    {NoDict,
     << <<"salary", Quoted(<< <<"2017", <<"num", 1>> >> >>)>> >>,
     << <<"salary", Bare(<<"num", 1>>)>> >>,
     << <<"age", Quoted(<< <<"2017", <<"num", 1>> >> >>)>> >>,
     << <<"salary", Quoted(<< <<"year:2017", <<"num", 1>> >> >>)>> >>}

\* the persons of the document: none, an empty or filled plural entry, or
\* the singular shortcut
BuildPersonsEntries ==
    {<< >>, << <<"persons", NoDict>> >>}
    \cup {<< <<"persons", [i \in 1..n |-> <<PersonIdPool[i], IF i = 1 THEN v ELSE NoDict>>]>> >> :
             n \in 1..MaxPersons, v \in BuildPersonVariables}
    \cup {<< <<"person", v>> >> : v \in BuildPersonVariables}

\* the ids the persons of an entry get
BuildPersonIds(entry) ==
    IF entry = << >> THEN << >>
    ELSE IF entry[1][1] = "person" THEN <<"person">>
    ELSE DictKeys(entry[1][2])

\* one household holding the first person as parent and the others as
\* children, or the first person only
BuildHouseholdObjects(ids) ==
    IF ids = << >> THEN {[roles |-> NoDict, variables |-> NoDict]}
    ELSE {[roles |-> RoleDict(<< <<"str", ids[1]>> >>, [i \in 1..m |-> <<"str", ids[i + 1]>>]),
           variables |-> v] : m \in {0, Len(ids) - 1}, v \in GroupVariableDocs}

BuildHouseholdsEntries(ids) ==
    {<< >>}
    \cup {<< <<"households", << <<HouseholdIdPool[1], o>> >> >> >> : o \in BuildHouseholdObjects(ids)}
    \cup {<< <<"household", o>> >> : o \in BuildHouseholdObjects(ids)}

BuildAxis(name) ==
    [name |-> name, count |-> 2, min |-> AxisMin(name), max |-> AxisMax(name),
     period |-> AxisPeriod(name), index |-> AxisIndex(name)]

\* the axes of the document: none, an empty list, or one or two parallel axes
BuildAxesEntries ==
    {<< >>, << <<"axes", << >> >> >>}
    \cup {<< <<"axes", << << <<BuildAxis(n)>> >> >> >> >> : n \in {"salary", "rent"}}
    \cup {<< <<"axes", << << <<BuildAxis("salary"), BuildAxis("rent")>> >> >> >> >>}

\* keys no kind of the system is named by
BuildUnknownEntries ==
    {<< >>, << <<"foo", NoDict>> >>, << <<"foo", NoDict>>, <<"bar", NoDict>> >>}

BuildSetDefaultPeriod ==
    /\ log = << >> /\ self.default_period = ""
    /\ Step(set_default_period(World, "2018"))
    /\ UNCHANGED <<given, prev, returned>>

BuildFromDict ==
    /\ log = << >>
    /\ \E persons \in BuildPersonsEntries :
         \E households \in BuildHouseholdsEntries(BuildPersonIds(persons)) :
           \E axes \in BuildAxesEntries :
             \E unknown \in BuildUnknownEntries :
               LET input_dict == persons \o households \o axes \o unknown
               IN  /\ input_dict # << >>
                   /\ Step(build_from_dict(World, input_dict))
                   /\ given' = input_dict
    /\ UNCHANGED <<prev, returned>>

NextBuild == BuildSetDefaultPeriod \/ BuildFromDict

SpecBuild == Init /\ [][NextBuild]_vars

\* where in the log the calls of a method are
CallsAt(name) == {k \in 1..Len(log) : log[k][1] = name}

\* C8: in a build that expands axes, expand_axes runs after every
\* init_variable_values call and before every finalize_variables_init call,
\* that of the persons included.
C8_ExpandBetweenIngestionAndFinalize ==
    \A k \in CallsAt("expand_axes") :
        /\ \A j \in CallsAt("init_variable_values") : j < k
        /\ \A j \in CallsAt("finalize_variables_init") : k < j

\* sanity: the finalisation of the groups does come after the expansion
C8_GroupsFinalizedAfterExpansion ==
    \A k \in CallsAt("expand_axes") :
        \A j \in CallsAt("finalize_variables_init") : log[j][2] = GroupPlural => k < j

\* the keys of the document that are neither 'axes' nor the singular or
\* plural name of a kind
UnknownKeys(input_dict) ==
    SelectSeq(DictKeys(input_dict), LAMBDA key : ~IsPlural(key) /\ ~IsSingular(key) /\ key # "axes")

HasKindKey(input_dict) ==
    \E i \in 1..Len(input_dict) : IsPlural(input_dict[i][1]) \/ IsSingular(input_dict[i][1])

\* C10: a document with a key of a kind and an unknown key ends build_from_dict
\* with the unexpected-entities error naming the unknown keys, singular
\* shortcut or not.
C10_UnknownKeysReported ==
    (log # << >> /\ HasKindKey(given) /\ UnknownKeys(given) # << >>)
        => error = "SituationParsingError:unexpected entities: " \o join(UnknownKeys(given))

\* sanity: without a singular shortcut the unknown keys are reported
C10_ReportedWithoutShortcut ==
    (log # << >> /\ HasKindKey(given) /\ UnknownKeys(given) # << >>
       /\ ~\E i \in 1..Len(given) : IsSingular(given[i][1]))
        => error = "SituationParsingError:unexpected entities: " \o join(UnknownKeys(given))


----------------------------------------------------------------------------
(* Normalisation: explicit_singular_entities is applied once to a document *)
(* holding any of the plural, singular, axes and unknown keys, in either   *)
(* order.                                                                  *)

NormalizePersons == {NoDict} \cup {BarePersons(n) : n \in 1..MaxPersons}

NormalizePerson ==
    {NoDict, << <<"salary", Quoted(<< <<"2017", <<"num", 1>> >> >>)>> >>}

NormalizeHousehold ==
    {[roles |-> RoleDict(<<Member(1)>>, << >>), variables |-> v] : v \in GroupVariableDocs}

NormalizeHouseholds == {<< <<HouseholdIdPool[1], o>> >> : o \in NormalizeHousehold}

\* no entry, or one entry under key for each of the values
Optional(key, values) == {<< >>} \cup {<< <<key, v>> >> : v \in values}

Reversed(s) == [i \in 1..Len(s) |-> s[Len(s) + 1 - i]]

\* given keeps the document, returned what explicit_singular_entities returns
Normalize ==
    /\ log = << >>
    /\ \E persons \in Optional("persons", NormalizePersons),
          person \in Optional("person", NormalizePerson),
          households \in Optional("households", NormalizeHouseholds),
          household \in Optional("household", NormalizeHousehold),
          axes \in Optional("axes", {<< >>}),
          unknown \in Optional("foo", {NoDict}),
          reversed \in BOOLEAN :
         LET document == persons \o person \o households \o household \o axes \o unknown
             input_dict == IF reversed THEN Reversed(document) ELSE document
         IN  /\ given' = input_dict
             /\ returned' = explicit_singular_entities(input_dict)
    /\ log' = Append(log, <<"explicit_singular_entities", "">>)
    /\ UNCHANGED <<self, simulation, error, prev>>

NextNormalize == Normalize

SpecNormalize == Init /\ [][NextNormalize]_vars

PluralKeys(input_dict) == {key \in Range(DictKeys(input_dict)) : IsPlural(key)}

\* C11: every plural key of the document is in what explicit_singular_entities
\* returns, with the value it had in the document, whatever singular keys
\* the document has; a document of plural keys only is returned as it is.
C11_PluralKeysPassThrough ==
    LastCall("explicit_singular_entities") =>
      /\ \A key \in PluralKeys(given) :
            DictHas(returned, key) /\ DictGet(returned, key) = DictGet(given, key)
      /\ PluralKeys(given) = Range(DictKeys(given)) => returned = given

\* sanity: the plural keys whose singular is not in the document pass through
C11_PassThroughWithoutOwnShortcut ==
    LastCall("explicit_singular_entities") =>
      /\ \A key \in PluralKeys(given) :
            (~\E k \in 1..Len(EntitiesBySingular) :
                EntitiesBySingular[k][2] = key /\ DictHas(given, EntitiesBySingular[k][1]))
            => DictHas(returned, key) /\ DictGet(returned, key) = DictGet(given, key)
      /\ PluralKeys(given) = Range(DictKeys(given)) => returned = given

====
